---- MODULE Spec2Model ----
(***************************************************************************)
(* A model of the ubuffer session protocol: the Sender and Receiver state  *)
(* machines of src/src/proto/{sender,receiver}.rs over the Stream of       *)
(* src/src/proto/mod.rs.                                                   *)
(*                                                                         *)
(* A byte on a transport is a triple:                                      *)
(*   <<"p", v, 0>>   a byte of known value v (headers, the iv payload),     *)
(*   <<"c", sid, i>> byte i of the output of seal operation number sid,    *)
(*   <<"x", sid, i>> such a byte after it was altered in transit.          *)
(* AES-256-GCM is modelled as an ideal AEAD: an open succeeds exactly on   *)
(* the complete, unaltered output of a seal made under the same key and    *)
(* the same nonce; the value of a ciphertext byte is unknown.              *)
(***************************************************************************)
EXTENDS Integers, Sequences, FiniteSets, TLC

\* ---------------------------------------------------------------- bounds
\* Scaled stand-in for BLOCK_SIZE = 128 * 1024 (src/src/proto/mod.rs:14).
BLOCK_SIZE == 2
\* Longest input of a session, in bytes.
MaxInput == 3
\* Fault hypothesis: in one session at most one Stream::write call accepts only
\* part of its buffer (shorts), and at most one ciphertext byte is altered in
\* transit (tampers). The write loop of Sender::transmit is not such a
\* fault: it writes on until the whole payload is taken.

\* ------------------------------------------------------ program constants
MESSAGE_SIZE == 12
TAG_LEN == 16
\* MAGIC_BYTES = 0xDEADBEEF as write_u32::<NetworkEndian> lays it out.
MAGIC_BYTES == <<222, 173, 190, 239>>

\* The values rng.gen::<u32>() is drawn from (0 is also the initial nonce).
IvSet == {0, 16909060}
Keys == {"K1", "K2"}

\* Every len above each payload a peer ever sends and above the receiver's
\* block buffer is represented by LenCap.
LenCap == (IF BLOCK_SIZE > 4 THEN BLOCK_SIZE ELSE 4) + TAG_LEN + 1

\* ----------------------------------------------------------- byte helpers
Plain(v) == <<"p", v, 0>>
Known(b) == b[1] = "p"
PlainSeq(vs) == [i \in 1..Len(vs) |-> Plain(vs[i])]
Take(s, n) == SubSeq(s, 1, n)
Drop(s, n) == SubSeq(s, n + 1, Len(s))
Min(a, b) == IF a < b THEN a ELSE b

\* byteorder NetworkEndian (big-endian) u32 and u64 (values below 2^31).
BE4(v) == <<(v \div 16777216) % 256, (v \div 65536) % 256, (v \div 256) % 256, v % 256>>
BE8(v) == <<0, 0, 0, 0>> \o BE4(v)
\* A faulty reader that takes the four bytes little-endian.
FromLE4(b) == b[1] + b[2] * 256 + b[3] * 65536 + b[4] * 16777216
FromBE4(b) == b[1] * 16777216 + b[2] * 65536 + b[3] * 256 + b[4]

\* bincode's fixed-width little-endian u32 and u64 (values below 2^31).
LE4(v) == <<v % 256, (v \div 256) % 256, (v \div 65536) % 256, (v \div 16777216) % 256>>
LE8(v) == LE4(v) \o <<0, 0, 0, 0>>

\* enum MessageTy: the variant index bincode writes.
MessageTy == <<"Block", "ReqIV", "RepIV", "Hello", "Goodbye">>
TyIndex(ty) == CHOOSE i \in 1..Len(MessageTy) : MessageTy[i] = ty

\* A faulty encoder that counts the variants from 1.
Serialize_from1(ty, len) == PlainSeq(LE4(TyIndex(ty)) \o LE8(len))

\* bincode::serialize(&Message { ty, len }): u32 variant index, u64 len.
Serialize(ty, len) == PlainSeq(LE4(TyIndex(ty) - 1) \o LE8(len))

\* bincode::deserialize of a 12-byte window. A window of known bytes has one
\* outcome; a byte of ciphertext in it may hold any value, so every outcome
\* that agrees with the known bytes is possible.
Deserialize(w) ==
    LET tys == {t \in 0..(Len(MessageTy) - 1) :
                    \A j \in 1..4 : Known(w[j]) => w[j][2] = LE4(t)[j]}
        tyBad == (\E j \in 1..4 : ~Known(w[j])) \/ tys = {}
        lens == {n \in 0..(LenCap - 1) :
                    \A j \in 1..8 : Known(w[4 + j]) => w[4 + j][2] = LE8(n)[j]}
        lenBig == (\E j \in 1..8 : ~Known(w[4 + j])) \/ lens = {}
    IN  {[ok |-> TRUE, ty |-> MessageTy[t + 1], len |-> n] :
            t \in tys, n \in lens \cup (IF lenBig THEN {LenCap} ELSE {})}
        \cup (IF tyBad THEN {[ok |-> FALSE, ty |-> "none", len |-> 0]} ELSE {})

\* A faulty generator that lays out the counter as it was before the increment.
get_next_nonce_stale(nonce, counter) ==
    [counter |-> counter + 1, bytes |-> BE4(nonce) \o BE8(counter)]

\* util::get_next_nonce (the Receiver's): increment the counter, then lay out
\* iv (4 bytes) || counter (8 bytes), both big-endian.
get_next_nonce(nonce, counter) ==
    [counter |-> counter + 1, bytes |-> BE4(nonce) \o BE8(counter + 1)]

\* Two faulty generators: one lays the counter out little-endian, one leaves
\* the counter where it was.
Sender_get_next_nonce_le(nonce, counter) ==
    [counter |-> counter + 1, bytes |-> BE4(nonce) \o LE8(counter + 1)]
Sender_get_next_nonce_stuck(nonce, counter) ==
    [counter |-> counter, bytes |-> BE4(nonce) \o BE8(counter + 1)]

\* Sender::get_next_nonce, the Sender's own copy of the same function.
Sender_get_next_nonce(nonce, counter) ==
    [counter |-> counter + 1, bytes |-> BE4(nonce) \o BE8(counter + 1)]

\* aead::seal_in_place: the output of seal operation sid over ptLen bytes of
\* plaintext, ptLen + tag_len bytes.
SealOut(sid, ptLen) == [i \in 1..(ptLen + TAG_LEN) |-> <<"c", sid, i>>]

\* A faulty length that leaves the tag out.
EncSize_plain(bytes_read) == bytes_read

\* enc_msg_len / the value seal_in_place returns, which becomes the header's len.
EncSize(bytes_read) == bytes_read + TAG_LEN

\* aead::open_in_place over buf, against the table of seal operations: the
\* seal it authenticates as, or 0 (ring::error::Unspecified).
OpenSid(table, key, nonce, buf) ==
    LET ok == {sid \in 1..Len(table) :
                  /\ table[sid].key = key
                  /\ table[sid].nonce = nonce
                  /\ buf = SealOut(sid, Len(table[sid].pt))}
    IN  IF ok = {} THEN 0 ELSE CHOOSE sid \in ok : TRUE

\* The plaintext slice a successful open returns.
OpenedPlain(table, sid) == IF sid = 0 THEN <<>> ELSE table[sid].pt

\* Faulty callers that go on after a failed open.
R_HelloOpenResult_ignore(sid) == "running"
R_BlockOpenResult_ignore(sid) == "running"

\* A faulty sender that goes on after a failed open of the server's Hello.
S_HelloOpenResult_ignore(sid) == "running"

\* The `?` after each open_in_place: From<ring::error::Unspecified> turns a
\* failed open into ProtoError::CryptoErr, which the caller returns.
S_HelloOpenResult(sid) == IF sid = 0 THEN "CryptoErr" ELSE "running"
R_HelloOpenResult(sid) == IF sid = 0 THEN "CryptoErr" ELSE "running"
R_BlockOpenResult(sid) == IF sid = 0 THEN "CryptoErr" ELSE "running"

\* The seal operation a buffer's first byte comes from (0: none), and whether
\* the buffer holds a byte altered in transit.
BufSid(buf) == IF Len(buf) > 0 /\ buf[1][1] \in {"c", "x"} THEN buf[1][2] ELSE 0
BufAltered(buf) == \E i \in 1..Len(buf) : buf[i][1] = "x"

\* State. sender, receiver: the fields of struct Sender and struct Receiver
\* (state, counter, nonce, key), the place each has reached in run (pc) and
\* what run has returned (result). input, inPos: the input source and how much
\* of it the BufReader has consumed. sink: the bytes the output has taken.
\* s2r, r2s: the bytes in transit in each direction. seals: every
\* seal_in_place so far. closed: calls of UdtSocket::close.
\* History: sent (every message written, in order), sOps and rOps (every call
\* of each peer's nonce generator and the AEAD operation it served), writes
\* (every out.write), shorts and tampers (the faults so far).
\* codec: a header on its way through bincode, outside any session (idle
\* during one).
VARIABLES sender, receiver, input, inPos, sink, s2r, r2s, seals, closed,
          sent, sOps, rOps, writes, shorts, tampers, codec

vars == <<sender, receiver, input, inPos, sink, s2r, r2s, seals, closed,
          sent, sOps, rOps, writes, shorts, tampers, codec>>

\* The input: bytes told apart by their position, so that any loss,
\* duplication or reordering shows.
Inputs == {[i \in 1..n |-> i] : n \in 0..MaxInput}

\* A faulty loop that says goodbye as soon as it is in Transmit.
S_run_early(state) ==
    CASE state = "WaitHello" -> "req_iv"
      [] state = "Transmit" -> "send_client_goodbye"
      [] state = "WaitHangup" -> "send_client_goodbye"

\* The loop of Sender::run: the function `match self.state` enters (for
\* WaitHello and WaitHangup, the first step of wait_hello and of wait_hup).
S_run(state) ==
    CASE state = "WaitHello" -> "req_iv"
      [] state = "Transmit" -> "transmit"
      [] state = "WaitHangup" -> "send_client_goodbye"

\* A faulty loop that says goodbye as soon as it is in Transmit.
R_run_eager(state) ==
    CASE state = "WaitHello" -> "recv_req_iv"
      [] state = "Transmit" -> "wait_goodbye"
      [] state = "WaitHangup" -> "wait_goodbye"

\* The loop of Receiver::run, likewise.
R_run(state) ==
    CASE state = "WaitHello" -> "recv_req_iv"
      [] state = "Transmit" -> "wait_chunk"
      [] state = "WaitHangup" -> "wait_goodbye"

\* Sender::new and Receiver::new: WaitHello, counter 0, nonce 0.
Init ==
    /\ sender = [state |-> "WaitHello", pc |-> S_run("WaitHello"), counter |-> 0,
                 nonce |-> 0, key |-> "K1", result |-> "running"]
    /\ \E k \in Keys :
          receiver = [state |-> "WaitHello", pc |-> R_run("WaitHello"), counter |-> 0,
                      nonce |-> 0, key |-> k, result |-> "running"]
    /\ input \in Inputs
    /\ inPos = 0
    /\ sink = <<>>
    /\ s2r = <<>>
    /\ r2s = <<>>
    /\ seals = <<>>
    /\ closed = 0
    /\ sent = <<>>
    /\ sOps = <<>>
    /\ rOps = <<>>
    /\ writes = <<>>
    /\ shorts = 0
    /\ tampers = 0
    /\ codec = [phase |-> "idle"]

\* A faulty handshake that starts the counter afresh for the transfer.
EnterTransmit_reset(rec) == [rec EXCEPT !.state = "Transmit", !.counter = 0]

\* The end of wait_hello on either peer: self.state = State::Transmit, and
\* nothing else of the endpoint is touched.
EnterTransmit(rec) == [rec EXCEPT !.state = "Transmit"]

SenderEnded == sender.result # "running"
ReceiverEnded == receiver.result # "running"

\* Stream::write(buf): the number of bytes the transport accepts (all of them,
\* or only some), or -1 for an error, which a transport whose peer is gone may
\* give.
Accepts(buf, peerEnded) ==
    {Len(buf)}
        \cup (IF shorts = 0 THEN 1..(Len(buf) - 1) ELSE {})
        \cup (IF peerEnded THEN {-1} ELSE {})

IsShort(buf, k) == IF k >= 0 /\ k < Len(buf) THEN 1 ELSE 0

\* The second Stream::write of a function that makes two.
Accepts2(buf, peerEnded, first) ==
    {k \in Accepts(buf, peerEnded) : first + IsShort(buf, k) + shorts <= 1}

\* The bytes a Stream::write that returned k has put on the transport.
Written(buf, k) == IF k = -1 THEN <<>> ELSE Take(buf, k)

\* Stream::read_exact of a header and bincode::deserialize of it.
\*   st = "io": the read failed; "ser": the bytes do not decode; "ok".
\* No outcome: the read blocks.
ReadHeader(wire, peerEnded) ==
    IF Len(wire) < MESSAGE_SIZE
    THEN IF peerEnded THEN {[st |-> "io", ty |-> "none", len |-> 0]} ELSE {}
    ELSE {[st |-> IF h.ok THEN "ok" ELSE "ser", ty |-> h.ty, len |-> h.len] :
            h \in Deserialize(Take(wire, MESSAGE_SIZE))}

\* Stream::read_exact of the n payload bytes after a header: can it complete.
PayloadReady(wire, n) == n < LenCap /\ Len(wire) >= MESSAGE_SIZE + n
PayloadOf(wire, n) == SubSeq(wire, MESSAGE_SIZE + 1, MESSAGE_SIZE + n)

\* A payload read that cannot complete: vec![0u8; len] aborts on a len no
\* allocation can serve; otherwise read_exact waits, and fails once the peer
\* is gone. No outcome: it waits.
StuckRead(n, peerEnded) ==
    (IF n = LenCap THEN {"Panic"} ELSE {}) \cup (IF peerEnded THEN {"IoErr"} ELSE {})

\* A faulty run that swallows the error and carries on where it was.
Ended_swallow(rec, err) == rec

\* The `?` of run: the error ends the loop and is what run returns.
Ended(rec, err) == [rec EXCEPT !.result = err, !.pc = "done"]
SFail(err) == sender' = Ended(sender, err)
RFail(err) == receiver' = Ended(receiver, err)

\* One entry of sent: who wrote which message, the len in its header, how
\* many header bytes and payload bytes the transport took (pay = -1: the
\* payload write failed), and for a Block the chunk's length L and how much
\* input was left when it was read.
Msg(from, ty, len, hdr, pay, L, avail) ==
    [from |-> from, ty |-> ty, len |-> len, hdr |-> hdr, pay |-> pay, L |-> L,
     avail |-> avail]

\* One entry of sOps or rOps: a call of the nonce generator (the counter it
\* left, the nonce it returned) and the AEAD operation that used the nonce
\* (kind "none": the function returned before any).
Op(kind, msg, nn, sid, ok, alt) ==
    [kind |-> kind, msg |-> msg, nonce |-> nn.bytes, counter |-> nn.counter,
     sid |-> sid, ok |-> ok, alt |-> alt]

\* ------------------------------------------------------------------ Sender

\* Sender::req_iv: one Stream::write of the ReqIV header, its count unused.
S_req_iv ==
    /\ sender.result = "running" /\ sender.pc = "req_iv"
    /\ LET buf == Serialize("ReqIV", 0) IN
       \E k \in Accepts(buf, ReceiverEnded) :
          IF k = -1
          THEN /\ SFail("IoErr")
               /\ UNCHANGED <<s2r, sent, shorts>>
          ELSE /\ s2r' = s2r \o Take(buf, k)
               /\ sent' = Append(sent, Msg("S", "ReqIV", 0, k, 0, 0, 0))
               /\ shorts' = shorts + IsShort(buf, k)
               /\ sender' = [sender EXCEPT !.pc = "recv_rep_iv"]
    /\ UNCHANGED <<codec, receiver, input, inPos, sink, r2s, seals, closed, sOps, rOps,
                   writes, tampers>>

\* Sender::recv_rep_iv: read a header (its type is not looked at), read len
\* bytes, take the first four as the big-endian iv.
S_recv_rep_iv ==
    /\ sender.result = "running" /\ sender.pc = "recv_rep_iv"
    /\ \E h \in ReadHeader(r2s, ReceiverEnded) :
          CASE h.st = "io" -> SFail("IoErr") /\ UNCHANGED r2s
            [] h.st = "ser" -> SFail("SerializeErr") /\ r2s' = Drop(r2s, MESSAGE_SIZE)
            [] h.st = "ok" /\ PayloadReady(r2s, h.len) ->
                  LET buf == PayloadOf(r2s, h.len) IN
                  /\ r2s' = Drop(r2s, MESSAGE_SIZE + h.len)
                  /\ IF h.len < 4
                     THEN SFail("IoErr")
                     ELSE \E iv \in (IF \A j \in 1..4 : Known(buf[j])
                                     THEN {FromBE4([j \in 1..4 |-> buf[j][2]])}
                                     ELSE IvSet) :
                             sender' = [sender EXCEPT !.nonce = iv, !.pc = "send_hello"]
            [] h.st = "ok" /\ ~PayloadReady(r2s, h.len) ->
                  /\ \E r \in StuckRead(h.len, ReceiverEnded) : SFail(r)
                  /\ r2s' = Drop(r2s, MESSAGE_SIZE)
    /\ UNCHANGED <<codec, receiver, input, inPos, sink, s2r, seals, closed, sent, sOps, rOps,
                   writes, shorts, tampers>>

\* Sender::send_hello: seal MAGIC_BYTES under the next nonce, write the Hello
\* header and the sealed payload, one Stream::write each, counts unused.
S_send_hello ==
    /\ sender.result = "running" /\ sender.pc = "send_hello"
    /\ LET nn == Sender_get_next_nonce(sender.nonce, sender.counter)
           sid == Len(seals) + 1
           enc == SealOut(sid, Len(MAGIC_BYTES))
           hdr == Serialize("Hello", Len(enc))
           s1 == [sender EXCEPT !.counter = nn.counter]
       IN
       /\ seals' = Append(seals, [key |-> sender.key, nonce |-> nn.bytes, pt |-> MAGIC_BYTES])
       /\ sOps' = Append(sOps, Op("seal", "Hello", nn, sid, TRUE, FALSE))
       /\ \E k1 \in Accepts(hdr, ReceiverEnded) :
             IF k1 = -1
             THEN /\ sender' = Ended(s1, "IoErr")
                  /\ UNCHANGED <<s2r, sent, shorts>>
             ELSE \E k2 \in Accepts2(enc, ReceiverEnded, IsShort(hdr, k1)) :
                     /\ s2r' = s2r \o Take(hdr, k1) \o Written(enc, k2)
                     /\ sent' = Append(sent, Msg("S", "Hello", Len(enc), k1, k2, 0, 0))
                     /\ shorts' = shorts + IsShort(hdr, k1) + IsShort(enc, k2)
                     /\ sender' = IF k2 = -1 THEN Ended(s1, "IoErr")
                                             ELSE [s1 EXCEPT !.pc = "recv_hello"]
    /\ UNCHANGED <<codec, receiver, input, inPos, sink, r2s, closed, rOps, writes, tampers>>

\* Sender::recv_hello, and the end of Sender::wait_hello: read a header, which
\* must be a Hello; advance the nonce; read len bytes; open them. Then Transmit.
S_recv_hello ==
    /\ sender.result = "running" /\ sender.pc = "recv_hello"
    /\ \E h \in ReadHeader(r2s, ReceiverEnded) :
          LET nn == Sender_get_next_nonce(sender.nonce, sender.counter)
              s1 == [sender EXCEPT !.counter = nn.counter]
          IN
          CASE h.st = "io" -> SFail("IoErr") /\ UNCHANGED <<r2s, sOps>>
            [] h.st = "ser" ->
                  SFail("SerializeErr") /\ r2s' = Drop(r2s, MESSAGE_SIZE) /\ UNCHANGED sOps
            [] h.st = "ok" /\ h.ty # "Hello" ->
                  SFail("UnexpectedMessage") /\ r2s' = Drop(r2s, MESSAGE_SIZE)
                  /\ UNCHANGED sOps
            [] h.st = "ok" /\ h.ty = "Hello" /\ PayloadReady(r2s, h.len) ->
                  LET buf == PayloadOf(r2s, h.len)
                      sid == OpenSid(seals, sender.key, nn.bytes, buf)
                      res == S_HelloOpenResult(sid)
                  IN
                  /\ r2s' = Drop(r2s, MESSAGE_SIZE + h.len)
                  /\ sOps' = Append(sOps, Op("open", "Hello", nn, BufSid(buf), sid # 0,
                                             BufAltered(buf)))
                  /\ sender' = IF res # "running" THEN Ended(s1, res)
                               ELSE [EnterTransmit(s1) EXCEPT !.pc = S_run("Transmit")]
            [] h.st = "ok" /\ h.ty = "Hello" /\ ~PayloadReady(r2s, h.len) ->
                  /\ \E r \in StuckRead(h.len, ReceiverEnded) : sender' = Ended(s1, r)
                  /\ r2s' = Drop(r2s, MESSAGE_SIZE)
                  /\ sOps' = Append(sOps, Op("none", "Hello", nn, 0, FALSE, FALSE))
    /\ UNCHANGED <<codec, receiver, input, inPos, sink, s2r, seals, closed, sent, rOps,
                   writes, shorts, tampers>>

\* A faulty reader whose buffer holds one byte more than a block.
ReadSizes_wide(remaining) ==
    IF remaining = 0 THEN {0} ELSE 1..Min(BLOCK_SIZE + 1, remaining)

\* What one read of the input source returns to BufReader::fill_buf: 0 at
\* end of stream, else any amount up to the buffer's capacity, BLOCK_SIZE.
ReadSizes(remaining) == IF remaining = 0 THEN {0} ELSE 1..Min(BLOCK_SIZE, remaining)

\* A faulty loop that never sees the end of the input.
AtEof_never(bytes_read) == FALSE

\* if bytes_read == 0 { break 'copy; }
AtEof(bytes_read) == bytes_read = 0

\* One iteration of the 'copy loop of Sender::transmit: take a chunk; an empty
\* one ends the loop (WaitHangup). Seal the chunk under the next nonce, write
\* the Block header with one Stream::write (count unused) and the sealed
\* payload with the 'write loop, which goes on until all of it is written.
S_transmit ==
    /\ sender.result = "running" /\ sender.pc = "transmit"
    /\ \E n \in ReadSizes(Len(input) - inPos) :
          IF AtEof(n)
          THEN /\ sender' = [sender EXCEPT !.state = "WaitHangup",
                                        !.pc = S_run("WaitHangup")]
               /\ UNCHANGED <<inPos, s2r, seals, sent, sOps, shorts>>
          ELSE LET nn == Sender_get_next_nonce(sender.nonce, sender.counter)
                   sid == Len(seals) + 1
                   pt == SubSeq(input, inPos + 1, inPos + n)
                   enc == SealOut(sid, n)
                   hdr == Serialize("Block", EncSize(n))
                   s1 == [sender EXCEPT !.counter = nn.counter]
               IN
               /\ inPos' = inPos + n
               /\ seals' = Append(seals, [key |-> sender.key, nonce |-> nn.bytes, pt |-> pt])
               /\ sOps' = Append(sOps, Op("seal", "Block", nn, sid, TRUE, FALSE))
               /\ \E k1 \in Accepts(hdr, ReceiverEnded) :
                     IF k1 = -1
                     THEN /\ sender' = Ended(s1, "IoErr")
                          /\ UNCHANGED <<s2r, sent, shorts>>
                     ELSE \E k2 \in {EncSize(n)} \cup (IF ReceiverEnded THEN {-1} ELSE {}) :
                             /\ s2r' = s2r \o Take(hdr, k1) \o Written(enc, k2)
                             /\ sent' = Append(sent, Msg("S", "Block", EncSize(n), k1, k2, n,
                                                         Len(input) - inPos))
                             /\ shorts' = shorts + IsShort(hdr, k1)
                             /\ sender' = IF k2 = -1 THEN Ended(s1, "IoErr") ELSE s1
    /\ UNCHANGED <<codec, receiver, input, sink, r2s, closed, rOps, writes, tampers>>

\* Sender::send_client_goodbye: one Stream::write of the Goodbye header.
S_send_client_goodbye ==
    /\ sender.result = "running" /\ sender.pc = "send_client_goodbye"
    /\ LET buf == Serialize("Goodbye", 0) IN
       \E k \in Accepts(buf, ReceiverEnded) :
          IF k = -1
          THEN /\ SFail("IoErr")
               /\ UNCHANGED <<s2r, sent, shorts>>
          ELSE /\ s2r' = s2r \o Take(buf, k)
               /\ sent' = Append(sent, Msg("S", "Goodbye", 0, k, 0, 0, 0))
               /\ shorts' = shorts + IsShort(buf, k)
               /\ sender' = [sender EXCEPT !.pc = "recv_server_goodbye"]
    /\ UNCHANGED <<codec, receiver, input, inPos, sink, r2s, seals, closed, sOps, rOps,
                   writes, tampers>>

\* Sender::recv_server_goodbye, after which Sender::run returns Ok.
S_recv_server_goodbye ==
    /\ sender.result = "running" /\ sender.pc = "recv_server_goodbye"
    /\ \E h \in ReadHeader(r2s, ReceiverEnded) :
          CASE h.st = "io" -> SFail("IoErr") /\ UNCHANGED r2s
            [] h.st = "ser" -> SFail("SerializeErr") /\ r2s' = Drop(r2s, MESSAGE_SIZE)
            [] h.st = "ok" /\ h.ty # "Goodbye" ->
                  SFail("UnexpectedMessage") /\ r2s' = Drop(r2s, MESSAGE_SIZE)
            [] h.st = "ok" /\ h.ty = "Goodbye" ->
                  SFail("Ok") /\ r2s' = Drop(r2s, MESSAGE_SIZE)
    /\ UNCHANGED <<codec, receiver, input, inPos, sink, s2r, seals, closed, sent, sOps, rOps,
                   writes, shorts, tampers>>

\* ---------------------------------------------------------------- Receiver

\* Receiver::recv_req_iv: read a header; assert_eq! on its type and its len.
R_recv_req_iv ==
    /\ receiver.result = "running" /\ receiver.pc = "recv_req_iv"
    /\ \E h \in ReadHeader(s2r, SenderEnded) :
          CASE h.st = "io" -> RFail("IoErr") /\ UNCHANGED s2r
            [] h.st = "ser" -> RFail("SerializeErr") /\ s2r' = Drop(s2r, MESSAGE_SIZE)
            [] h.st = "ok" /\ (h.ty # "ReqIV" \/ h.len # 0) ->
                  RFail("Panic") /\ s2r' = Drop(s2r, MESSAGE_SIZE)
            [] h.st = "ok" /\ h.ty = "ReqIV" /\ h.len = 0 ->
                  /\ receiver' = [receiver EXCEPT !.pc = "send_rep_iv"]
                  /\ s2r' = Drop(s2r, MESSAGE_SIZE)
    /\ UNCHANGED <<codec, sender, input, inPos, sink, r2s, seals, closed, sent, sOps, rOps,
                   writes, shorts, tampers>>

\* Receiver::send_rep_iv: draw the iv, write the RepIV header and the four
\* big-endian iv bytes, one Stream::write each, counts unused.
R_send_rep_iv ==
    /\ receiver.result = "running" /\ receiver.pc = "send_rep_iv"
    /\ \E iv \in IvSet :
          LET buf == PlainSeq(BE4(iv))
              hdr == Serialize("RepIV", Len(buf))
              r1 == [receiver EXCEPT !.nonce = iv]
          IN
          \E k1 \in Accepts(hdr, SenderEnded) :
             IF k1 = -1
             THEN /\ receiver' = Ended(r1, "IoErr")
                  /\ UNCHANGED <<r2s, sent, shorts>>
             ELSE \E k2 \in Accepts2(buf, SenderEnded, IsShort(hdr, k1)) :
                     /\ r2s' = r2s \o Take(hdr, k1) \o Written(buf, k2)
                     /\ sent' = Append(sent, Msg("R", "RepIV", Len(buf), k1, k2, 0, 0))
                     /\ shorts' = shorts + IsShort(hdr, k1) + IsShort(buf, k2)
                     /\ receiver' = IF k2 = -1 THEN Ended(r1, "IoErr")
                                    ELSE [r1 EXCEPT !.pc = "recv_client_hello"]
    /\ UNCHANGED <<codec, sender, input, inPos, sink, s2r, seals, closed, sOps, rOps,
                   writes, tampers>>

\* Receiver::recv_client_hello: read a header, assert_eq! it is a Hello, read
\* len bytes, advance the nonce, open them.
R_recv_client_hello ==
    /\ receiver.result = "running" /\ receiver.pc = "recv_client_hello"
    /\ \E h \in ReadHeader(s2r, SenderEnded) :
          CASE h.st = "io" -> RFail("IoErr") /\ UNCHANGED <<s2r, rOps>>
            [] h.st = "ser" ->
                  RFail("SerializeErr") /\ s2r' = Drop(s2r, MESSAGE_SIZE) /\ UNCHANGED rOps
            [] h.st = "ok" /\ h.ty # "Hello" ->
                  RFail("Panic") /\ s2r' = Drop(s2r, MESSAGE_SIZE) /\ UNCHANGED rOps
            [] h.st = "ok" /\ h.ty = "Hello" /\ PayloadReady(s2r, h.len) ->
                  LET buf == PayloadOf(s2r, h.len)
                      nn == get_next_nonce(receiver.nonce, receiver.counter)
                      sid == OpenSid(seals, receiver.key, nn.bytes, buf)
                      res == R_HelloOpenResult(sid)
                      r1 == [receiver EXCEPT !.counter = nn.counter]
                  IN
                  /\ s2r' = Drop(s2r, MESSAGE_SIZE + h.len)
                  /\ rOps' = Append(rOps, Op("open", "Hello", nn, BufSid(buf), sid # 0,
                                             BufAltered(buf)))
                  /\ receiver' = IF res # "running" THEN Ended(r1, res)
                                 ELSE [r1 EXCEPT !.pc = "send_server_hello"]
            [] h.st = "ok" /\ h.ty = "Hello" /\ ~PayloadReady(s2r, h.len) ->
                  /\ \E r \in StuckRead(h.len, SenderEnded) : RFail(r)
                  /\ s2r' = Drop(s2r, MESSAGE_SIZE)
                  /\ UNCHANGED rOps
    /\ UNCHANGED <<codec, sender, input, inPos, sink, r2s, seals, closed, sent, sOps,
                   writes, shorts, tampers>>

\* Receiver::send_server_hello, and the end of Receiver::wait_hello: seal
\* MAGIC_BYTES under the next nonce, write header and payload. Then Transmit.
R_send_server_hello ==
    /\ receiver.result = "running" /\ receiver.pc = "send_server_hello"
    /\ LET nn == get_next_nonce(receiver.nonce, receiver.counter)
           sid == Len(seals) + 1
           enc == SealOut(sid, Len(MAGIC_BYTES))
           hdr == Serialize("Hello", Len(enc))
           r1 == [receiver EXCEPT !.counter = nn.counter]
       IN
       /\ seals' = Append(seals, [key |-> receiver.key, nonce |-> nn.bytes, pt |-> MAGIC_BYTES])
       /\ rOps' = Append(rOps, Op("seal", "Hello", nn, sid, TRUE, FALSE))
       /\ \E k1 \in Accepts(hdr, SenderEnded) :
             IF k1 = -1
             THEN /\ receiver' = Ended(r1, "IoErr")
                  /\ UNCHANGED <<r2s, sent, shorts>>
             ELSE \E k2 \in Accepts2(enc, SenderEnded, IsShort(hdr, k1)) :
                     /\ r2s' = r2s \o Take(hdr, k1) \o Written(enc, k2)
                     /\ sent' = Append(sent, Msg("R", "Hello", Len(enc), k1, k2, 0, 0))
                     /\ shorts' = shorts + IsShort(hdr, k1) + IsShort(enc, k2)
                     /\ receiver' = IF k2 = -1 THEN Ended(r1, "IoErr")
                                    ELSE [EnterTransmit(r1) EXCEPT !.pc = R_run("Transmit")]
    /\ UNCHANGED <<codec, sender, input, inPos, sink, s2r, closed, sOps, writes, tampers>>

\* What one out.write(buf) of the output sink accepts (std::io::Write::write may
\* take fewer bytes than offered).
SinkAccepts(n) == IF n = 0 THEN {0} ELSE 1..n

\* out.write(&payload)?: the count the sink took, or -1 for an io::Error.
SinkOutcomes(n) == SinkAccepts(n) \cup {-1}

\* out.flush()?, reached when the write returned a count: done, or an io::Error.
FlushOutcomes(k) == IF k = -1 THEN {"ok"} ELSE {"ok", "io"}

\* The 'copy loop of Receiver::wait_chunk reading a block of n bytes from the
\* bytes that follow the header: "full" when they are all there; no outcome
\* (it waits) while the sender may still write them; once the sender is gone
\* the next Stream::read gives 0 ("eof": the loop ends early) or an error
\* ("io"). A read into an empty buffer gives 0 at once.
BlockRead(rest, n, peerEnded) ==
    IF n = 0 THEN {"eof"}
    ELSE IF Len(rest) >= n THEN {"full"}
    ELSE IF peerEnded THEN {"eof", "io"}
    ELSE {}

\* A faulty Goodbye arm that takes a nonce on its way out.
R_OnGoodbye_counted(rec) ==
    [rec EXCEPT !.state = "WaitHangup", !.pc = R_run("WaitHangup"),
                !.counter = @ + 1]

\* The Goodbye arm of the match in Receiver::wait_chunk:
\* self.state = State::WaitHangup; return Ok(()).
R_OnGoodbye(rec) == [rec EXCEPT !.state = "WaitHangup", !.pc = R_run("WaitHangup")]

\* Receiver::wait_chunk: read a header; a Goodbye moves to WaitHangup; any
\* type but Block fails assert_eq!; advance the nonce; assert! the len fits the
\* block buffer; read the block; open it; out.write the plaintext (count
\* unused) and flush, an error of either ending the run.
R_wait_chunk ==
    /\ receiver.result = "running" /\ receiver.pc = "wait_chunk"
    /\ \E h \in ReadHeader(s2r, SenderEnded) :
          LET nn == get_next_nonce(receiver.nonce, receiver.counter)
              r1 == [receiver EXCEPT !.counter = nn.counter]
              rest == Drop(s2r, MESSAGE_SIZE)
          IN
          CASE h.st = "io" -> RFail("IoErr") /\ UNCHANGED <<s2r, rOps, sink, writes>>
            [] h.st = "ser" ->
                  RFail("SerializeErr") /\ s2r' = rest /\ UNCHANGED <<rOps, sink, writes>>
            [] h.st = "ok" /\ h.ty = "Goodbye" ->
                  /\ receiver' = R_OnGoodbye(receiver)
                  /\ s2r' = rest
                  /\ UNCHANGED <<rOps, sink, writes>>
            [] h.st = "ok" /\ h.ty \notin {"Goodbye", "Block"} ->
                  RFail("Panic") /\ s2r' = rest /\ UNCHANGED <<rOps, sink, writes>>
            [] h.st = "ok" /\ h.ty = "Block" /\ h.len > BLOCK_SIZE + TAG_LEN ->
                  /\ receiver' = Ended(r1, "Panic")
                  /\ s2r' = rest
                  /\ rOps' = Append(rOps, Op("none", "Block", nn, 0, FALSE, FALSE))
                  /\ UNCHANGED <<sink, writes>>
            [] h.st = "ok" /\ h.ty = "Block" /\ h.len <= BLOCK_SIZE + TAG_LEN ->
                  \E rd \in BlockRead(rest, h.len, SenderEnded) :
                     LET pos == Min(h.len, Len(rest))
                         buf == Take(rest, pos)
                         sid == OpenSid(seals, receiver.key, nn.bytes, buf)
                         res == R_BlockOpenResult(sid)
                         payload == OpenedPlain(seals, sid)
                     IN
                     /\ s2r' = Drop(rest, pos)
                     /\ IF rd = "io"
                        THEN /\ receiver' = Ended(r1, "IoErr")
                             /\ rOps' = Append(rOps, Op("none", "Block", nn, 0, FALSE, FALSE))
                             /\ UNCHANGED <<sink, writes>>
                        ELSE /\ rOps' = Append(rOps, Op("open", "Block", nn, BufSid(buf),
                                                        sid # 0, BufAltered(buf)))
                             /\ IF res # "running"
                                THEN /\ receiver' = Ended(r1, res)
                                     /\ UNCHANGED <<sink, writes>>
                                ELSE \E k \in SinkOutcomes(Len(payload)) : \E fl \in FlushOutcomes(k) :
                                        /\ receiver' = IF k = -1 \/ fl = "io"
                                                        THEN Ended(r1, "IoErr") ELSE r1
                                        /\ sink' = sink \o Written(payload, k)
                                        /\ writes' = Append(writes, [offered |-> Len(payload),
                                                                     accepted |-> k,
                                                                     flushed |-> fl = "ok"])
    /\ UNCHANGED <<codec, sender, input, inPos, r2s, seals, closed, sent, sOps, shorts, tampers>>

\* A faulty arm that closes the socket twice.
Close_twice(n) == n + 2

\* self.stream.as_socket().close()?: one more call of UdtSocket::close.
Close(n) == n + 1

\* The WaitHangup arm of Receiver::run: Receiver::wait_goodbye writes the
\* Goodbye header, the socket is closed, run returns Ok.
R_wait_goodbye ==
    /\ receiver.result = "running" /\ receiver.pc = "wait_goodbye"
    /\ LET buf == Serialize("Goodbye", 0) IN
       \E k \in Accepts(buf, SenderEnded) :
          IF k = -1
          THEN /\ RFail("IoErr")
               /\ UNCHANGED <<r2s, sent, shorts, closed>>
          ELSE /\ r2s' = r2s \o Take(buf, k)
               /\ sent' = Append(sent, Msg("R", "Goodbye", 0, k, 0, 0, 0))
               /\ shorts' = shorts + IsShort(buf, k)
               /\ closed' = Close(closed)
               /\ receiver' = Ended(receiver, "Ok")
    /\ UNCHANGED <<codec, sender, input, inPos, sink, s2r, seals, sOps, rOps, writes, tampers>>

\* ------------------------------------------------------------- environment

Flip(wire, i) == [wire EXCEPT ![i] = <<"x", @[2], @[3]>>]

\* A ciphertext or tag byte on its way to the receiver is altered.
Tamper_s2r ==
    /\ tampers = 0
    /\ \E i \in 1..Len(s2r) :
          /\ s2r[i][1] = "c"
          /\ s2r' = Flip(s2r, i)
    /\ tampers' = tampers + 1
    /\ UNCHANGED <<codec, sender, receiver, input, inPos, sink, r2s, seals, closed, sent, sOps,
                   rOps, writes, shorts>>

\* A ciphertext or tag byte on its way to the sender is altered.
Tamper_r2s ==
    /\ tampers = 0
    /\ \E i \in 1..Len(r2s) :
          /\ r2s[i][1] = "c"
          /\ r2s' = Flip(r2s, i)
    /\ tampers' = tampers + 1
    /\ UNCHANGED <<codec, sender, receiver, input, inPos, sink, s2r, seals, closed, sent, sOps,
                   rOps, writes, shorts>>

\* The steps of the two peers, and those of the transport.
PeerNext ==
    \/ S_req_iv
    \/ S_recv_rep_iv
    \/ S_send_hello
    \/ S_recv_hello
    \/ S_transmit
    \/ S_send_client_goodbye
    \/ S_recv_server_goodbye
    \/ R_recv_req_iv
    \/ R_send_rep_iv
    \/ R_recv_client_hello
    \/ R_send_server_hello
    \/ R_wait_chunk
    \/ R_wait_goodbye

Next == PeerNext \/ Tamper_s2r \/ Tamper_r2s

Spec == Init /\ [][Next]_vars

\* --------------------------------------------------------------- properties

SameKey == sender.key = receiver.key
BothOk == sender.result = "Ok" /\ receiver.result = "Ok"
\* No step of either peer is possible: both have returned, or wait for ever.
Quiet == ~ENABLED PeerNext
\* The transport took every buffer whole, and altered nothing.
WholeWrites == shorts = 0
Unaltered == tampers = 0
\* No out.write and no out.flush of the sink has failed.
SinkOk == \A i \in 1..Len(writes) : writes[i].accepted # -1 /\ writes[i].flushed

IsPrefix(s, t) == Len(s) <= Len(t) /\ Take(t, Len(s)) = s
Ceil(n, d) == (n + d - 1) \div d

\* The messages written so far, as (writer, type), and the Blocks among them.
Tags == [i \in 1..Len(sent) |-> <<sent[i].from, sent[i].ty>>]
Blocks == SelectSeq(sent, LAMBDA m : m.ty = "Block")
Grammar(nb) ==
    <<(<<"S", "ReqIV">>), (<<"R", "RepIV">>), (<<"S", "Hello">>), (<<"R", "Hello">>)>>
        \o [i \in 1..nb |-> <<"S", "Block">>]
        \o <<(<<"S", "Goodbye">>), (<<"R", "Goodbye">>)>>

\* The AEAD operations among the calls of a nonce generator.
AeadOps(ops) == SelectSeq(ops, LAMBDA o : o.kind # "none")
IsBlockOpen(o) == o.kind = "open" /\ o.msg = "Block"

\* C1: in every session with equal keys in which both Sender::run and
\* Receiver::run returned Ok, the sink holds exactly the bytes of the input, in
\* order, however the input's reads and the sink's writes are segmented.
C1_RoundTrip == (SameKey /\ BothOk) => sink = input

C3_Lockstep ==
    /\ \A k \in 1..Min(Len(AeadOps(sOps)), Len(AeadOps(rOps))) :
          AeadOps(sOps)[k].nonce = AeadOps(rOps)[k].nonce
    /\ \A o \in {sOps[i] : i \in 1..Len(sOps)} \cup {rOps[i] : i \in 1..Len(rOps)} :
          (o.kind = "open" /\ o.sid # 0) => o.nonce = seals[o.sid].nonce

C3_Witness ==
    /\ \E i \in 1..Len(rOps) : IsBlockOpen(rOps[i]) /\ rOps[i].ok /\ i >= 4
    /\ \E i \in 1..Len(sOps) : sOps[i].kind = "open" /\ sOps[i].ok

\* C4: on each endpoint the counter starts at 0 and the i-th call of the
\* nonce generator leaves it at i and returns twelve bytes: the iv big-endian
\* in four, then i big-endian in eight. No nonce carries counter 0.
NonceLayout(ops, rec) ==
    /\ rec.counter = Len(ops)
    /\ \A i \in 1..Len(ops) :
          /\ ops[i].counter = i
          /\ Len(ops[i].nonce) = 12
          /\ FromBE4(SubSeq(ops[i].nonce, 1, 4)) = rec.nonce
          /\ \A j \in 5..11 : ops[i].nonce[j] = 0
          /\ ops[i].nonce[12] = i
          /\ ops[i].nonce[12] >= 1

C4_NonceLayout == NonceLayout(sOps, sender) /\ NonceLayout(rOps, receiver)

C4_Witness ==
    /\ sender.counter >= 4 /\ receiver.counter >= 4
    /\ sender.nonce = 16909060
    /\ sOps[1].nonce = <<1, 2, 3, 4, 0, 0, 0, 0, 0, 0, 0, 1>>

\* C5: each endpoint's counter is strictly increasing over its operations, and
\* no two seal operations of the session, the two peers' taken together, use
\* the same nonce.
C5_NoNonceReuse ==
    /\ \A i, j \in 1..Len(sOps) : i < j => sOps[i].counter < sOps[j].counter
    /\ \A i, j \in 1..Len(rOps) : i < j => rOps[i].counter < rOps[j].counter
    /\ \A a, b \in 1..Len(seals) : a # b => seals[a].nonce # seals[b].nonce

C5_Witness ==
    /\ SameKey
    /\ Cardinality({i \in 1..Len(sOps) : sOps[i].kind = "seal"}) >= 3
    /\ \E i \in 1..Len(rOps) : rOps[i].kind = "seal"

\* C6: when the receiver opens a Block whose ciphertext or tag holds a byte
\* altered in transit, the open fails, Receiver::run returns the crypto error
\* and that open is the receiver's last operation: the sink has been written
\* once for each Block opened before, and never again. What the sink holds is
\* never taken back.
OpenedBefore(i) == {j \in 1..(i - 1) : IsBlockOpen(rOps[j]) /\ rOps[j].ok}

C6_AlteredBlock ==
    /\ [](\A i \in 1..Len(rOps) :
            (IsBlockOpen(rOps[i]) /\ rOps[i].alt) =>
                /\ ~rOps[i].ok
                /\ receiver.result = "CryptoErr"
                /\ i = Len(rOps)
                /\ Len(writes) = Cardinality(OpenedBefore(i)))
    /\ [][IsPrefix(sink, sink')]_vars

C6_Witness ==
    /\ \E i \in 1..Len(rOps) : IsBlockOpen(rOps[i]) /\ rOps[i].alt
    /\ Len(sink) > 0
    /\ receiver.result = "CryptoErr"

BlockShape(m) ==
    /\ 1 <= m.L /\ m.L <= BLOCK_SIZE
    /\ m.len = m.L + TAG_LEN
    /\ m.len <= BLOCK_SIZE + TAG_LEN
    /\ m.pay \in {m.L + TAG_LEN, -1}
    /\ m.hdr >= 1 /\ m.hdr <= MESSAGE_SIZE
    /\ WholeWrites => m.hdr = MESSAGE_SIZE

BlockOnWire(m, w0, w1, sid) ==
    (m.hdr = MESSAGE_SIZE /\ m.pay # -1) =>
        /\ Len(w1) = Len(w0) + MESSAGE_SIZE + m.L + TAG_LEN
        /\ IsPrefix(w0, w1)
        /\ SubSeq(w1, Len(w0) + 1, Len(w0) + MESSAGE_SIZE)
              = PlainSeq(<<0, 0, 0, 0>> \o LE8(m.L + TAG_LEN))
        /\ \A j \in 1..(m.L + TAG_LEN) :
              w1[Len(w0) + MESSAGE_SIZE + j] = <<"c", sid, j>>

C10_CeilAlways ==
    sender.state = "WaitHangup" =>
        /\ Len(Blocks) = Ceil(Len(input), BLOCK_SIZE)
        /\ \A i \in 1..(Len(Blocks) - 1) : Blocks[i].L = BLOCK_SIZE

RECURSIVE SumL(_)
SumL(ms) == IF ms = <<>> THEN 0 ELSE ms[1].L + SumL(Tail(ms))

\* Every read of the input returned all it could: a full buffer, or what was left.
FullReads == \A i \in 1..Len(Blocks) : Blocks[i].L = Min(BLOCK_SIZE, Blocks[i].avail)

\* C10, amended: the sender writes one Block for each read of the input that
\* returned bytes, of as many bytes as the read returned, between 1 and
\* BLOCK_SIZE; once the input is at its end the Blocks' lengths add up to N,
\* so there are at least ceil(N / BLOCK_SIZE); and there are exactly that
\* many, all but the last of BLOCK_SIZE bytes, when every read returned a full
\* buffer or all that was left.
C10_OnePerRead ==
    /\ \A i \in 1..Len(Blocks) :
          /\ 1 <= Blocks[i].L /\ Blocks[i].L <= BLOCK_SIZE
          /\ Blocks[i].L <= Blocks[i].avail
    /\ SumL(Blocks) <= inPos
    /\ sender.state = "WaitHangup" =>
          /\ SumL(Blocks) = Len(input)
          /\ Len(Blocks) >= Ceil(Len(input), BLOCK_SIZE)
          /\ Len(Blocks) <= Len(input)
          /\ FullReads =>
                /\ Len(Blocks) = Ceil(Len(input), BLOCK_SIZE)
                /\ \A i \in 1..(Len(Blocks) - 1) : Blocks[i].L = BLOCK_SIZE

C10_Witness ==
    /\ sender.state = "WaitHangup"
    /\ Len(input) = BLOCK_SIZE + 1
    /\ Len(Blocks) = 2
    /\ Blocks[1].L = BLOCK_SIZE /\ Blocks[2].L = 1

\* Some decoding of the first twelve bytes of a transport is a header of type ty.
HeadIs(wire, ty) ==
    /\ Len(wire) >= MESSAGE_SIZE
    /\ \E h \in Deserialize(Take(wire, MESSAGE_SIZE)) : h.ok /\ h.ty = ty

\* Bytes are only added to a transport, or altered on it: nothing is read.
NotRead(w0, w1) == Len(w1) >= Len(w0)

\* C11: the step that takes the receiver from Transmit to WaitHangup reads a
\* header of type Goodbye and these twelve bytes only, leaves the counter
\* where it was, opens nothing and writes nothing to the sink; and a receiver
\* in WaitHangup reads no more from the transport, takes no nonce, opens
\* nothing, never writes to the sink and stays in WaitHangup.
C11_GoodbyeToHangup ==
    /\ [][(receiver.state = "Transmit" /\ receiver'.state = "WaitHangup") =>
             /\ HeadIs(s2r, "Goodbye")
             /\ s2r' = Drop(s2r, MESSAGE_SIZE)
             /\ receiver'.counter = receiver.counter
             /\ rOps' = rOps
             /\ sink' = sink /\ writes' = writes]_vars
    /\ [][receiver.state = "WaitHangup" =>
             /\ NotRead(s2r, s2r')
             /\ receiver'.counter = receiver.counter
             /\ rOps' = rOps
             /\ sink' = sink /\ writes' = writes
             /\ receiver'.state = "WaitHangup"]_vars

C11_Witness ==
    /\ receiver.state = "WaitHangup"
    /\ receiver.result = "Ok"
    /\ receiver.counter = 4
    /\ Len(writes) = 2

\* The place of the first message of a writer and type among those written (0: none).
FirstAt(from, ty) ==
    IF \E i \in 1..Len(sent) : Tags[i] = <<from, ty>>
    THEN CHOOSE i \in 1..Len(sent) :
            /\ Tags[i] = <<from, ty>>
            /\ \A j \in 1..(i - 1) : Tags[j] # <<from, ty>>
    ELSE 0

\* C12: the sender's Goodbye is written only when the input is at its end
\* and every Block has been written in full, and no Block follows it; the
\* receiver's Goodbye is written only after the sender's, by a receiver that
\* has read it (WaitHangup); Sender::run returns Ok only in a step that reads a
\* header of type Goodbye from the receiver and writes nothing;
\* Receiver::run returns Ok only in WaitHangup, in the step that writes its
\* Goodbye and then closes the socket.
C12_ShutdownOrder ==
    /\ [](FirstAt("S", "Goodbye") # 0 =>
            /\ inPos = Len(input)
            /\ SumL(Blocks) = Len(input)
            /\ \A i \in 1..Len(Blocks) : Blocks[i].pay = Blocks[i].len
            /\ \A i \in 1..Len(sent) : sent[i].ty = "Block" => i < FirstAt("S", "Goodbye"))
    /\ [](FirstAt("R", "Goodbye") # 0 =>
            /\ FirstAt("S", "Goodbye") # 0
            /\ FirstAt("S", "Goodbye") < FirstAt("R", "Goodbye")
            /\ receiver.state = "WaitHangup")
    /\ [](sender.result = "Ok" => FirstAt("R", "Goodbye") # 0)
    /\ [](receiver.result = "Ok" =>
            receiver.state = "WaitHangup" /\ FirstAt("S", "Goodbye") # 0 /\ closed = 1)
    /\ [][(sender.result # "Ok" /\ sender'.result = "Ok") =>
             /\ HeadIs(r2s, "Goodbye")
             /\ r2s' = Drop(r2s, MESSAGE_SIZE)
             /\ s2r' = s2r /\ sent' = sent]_vars
    /\ [][(receiver.result # "Ok" /\ receiver'.result = "Ok") =>
             /\ s2r' = s2r
             /\ Len(sent') = Len(sent) + 1
             /\ Tags'[Len(sent')] = <<"R", "Goodbye">>
             /\ IsPrefix(r2s, r2s') /\ Len(r2s') > Len(r2s)
             /\ closed' = closed + 1]_vars

C12_Witness ==
    /\ BothOk
    /\ Len(Blocks) = 2
    /\ FirstAt("S", "Goodbye") = 7 /\ FirstAt("R", "Goodbye") = 8
    /\ closed = 1

\* C13: with equal keys, a finite input, a transport that alters nothing and
\* fails no call, and a sink that fails no call, the session cannot come to
\* rest before both Sender::run and Receiver::run have returned Ok: whenever
\* no step of either peer is possible, both have.
C13_RunsToCompletion == (SameKey /\ Unaltered /\ SinkOk /\ Quiet) => BothOk

SenderHasIv == sender.pc = "send_hello" \/ Len(sOps) > 0
RepIVs == {i \in 1..Len(sent) : sent[i].ty = "RepIV"}

Types == {MessageTy[i] : i \in 1..Len(MessageTy)}
LegalLens == 0..(BLOCK_SIZE + TAG_LEN)

CodecInit ==
    /\ codec \in {[phase |-> "message", ty |-> ty, len |-> len, buf |-> <<>>, out |-> {}] :
                     ty \in Types, len \in LegalLens}
    /\ sender = [state |-> "WaitHello", pc |-> S_run("WaitHello"), counter |-> 0,
                 nonce |-> 0, key |-> "K1", result |-> "running"]
    /\ receiver = [state |-> "WaitHello", pc |-> R_run("WaitHello"), counter |-> 0,
                   nonce |-> 0, key |-> "K1", result |-> "running"]
    /\ input = <<>> /\ inPos = 0 /\ sink = <<>> /\ s2r = <<>> /\ r2s = <<>>
    /\ seals = <<>> /\ closed = 0 /\ sent = <<>> /\ sOps = <<>> /\ rOps = <<>>
    /\ writes = <<>> /\ shorts = 0 /\ tampers = 0

\* let buf = bincode::serialize(&msg)?
Codec_serialize ==
    /\ codec.phase = "message"
    /\ codec' = [codec EXCEPT !.phase = "bytes", !.buf = Serialize(codec.ty, codec.len)]
    /\ UNCHANGED <<sender, receiver, input, inPos, sink, s2r, r2s, seals, closed,
                   sent, sOps, rOps, writes, shorts, tampers>>

\* let msg: Message = bincode::deserialize(&buf)?
Codec_deserialize ==
    /\ codec.phase = "bytes"
    /\ codec' = [codec EXCEPT !.phase = "decoded", !.out = Deserialize(codec.buf)]
    /\ UNCHANGED <<sender, receiver, input, inPos, sink, s2r, r2s, seals, closed,
                   sent, sOps, rOps, writes, shorts, tampers>>

CodecNext == Codec_serialize \/ Codec_deserialize

CodecSpec == CodecInit /\ [][CodecNext]_vars

\* C16: for every message type and every legal len the encoded header is
\* exactly MESSAGE_SIZE = 12 bytes, all of them bytes (0..255), no other
\* (type, len) encodes to the same bytes, and decoding them gives that type
\* and that len and nothing else.
C16_HeaderRoundTrip ==
    /\ codec.phase \in {"bytes", "decoded"} =>
          /\ Len(codec.buf) = 12
          /\ Len(codec.buf) = MESSAGE_SIZE
          /\ \A j \in 1..Len(codec.buf) :
                Known(codec.buf[j]) /\ codec.buf[j][2] \in 0..255
          /\ \A ty \in Types, len \in LegalLens :
                Serialize(ty, len) = codec.buf => ty = codec.ty /\ len = codec.len
    /\ codec.phase = "decoded" =>
          codec.out = {[ok |-> TRUE, ty |-> codec.ty, len |-> codec.len]}

C16_Witness ==
    /\ codec.phase = "decoded"
    /\ codec.ty = "Goodbye"
    /\ codec.len = BLOCK_SIZE + TAG_LEN
    /\ codec.buf = PlainSeq(<<4, 0, 0, 0, BLOCK_SIZE + TAG_LEN, 0, 0, 0, 0, 0, 0, 0>>)

\* ------------------------------------------------- the program's entry points
\* main.rs: main() calls start_sender or start_receiver, which work on a
\* UdtSocket of their own. A byte of the input that is on the transport as it
\* was read is the triple <<"i", v, 0>>.

ClearSeq(vs) == [i \in 1..Len(vs) |-> <<"i", vs[i], 0>>]

MainInit ==
    /\ sender = [pc |-> "fill_buf", bytes_read |-> 0, pos |-> 0, result |-> "running"]
    /\ receiver = [pc |-> "recv", result |-> "running"]
    /\ input \in Inputs
    /\ inPos = 0 /\ sink = <<>> /\ s2r = <<>> /\ r2s = <<>>
    /\ seals = <<>> /\ closed = 0 /\ sent = <<>> /\ sOps = <<>> /\ rOps = <<>>
    /\ writes = <<>> /\ shorts = 0 /\ tampers = 0
    /\ codec = [phase |-> "idle"]

\* start_sender, the head of the 'copy loop: reader.fill_buf(); an empty
\* buffer ends the loop.
Main_fill_buf ==
    /\ sender.result = "running" /\ sender.pc = "fill_buf"
    /\ \E n \in ReadSizes(Len(input) - inPos) :
          sender' = IF AtEof(n) THEN [sender EXCEPT !.pc = "close"]
                    ELSE [sender EXCEPT !.pc = "send", !.bytes_read = n, !.pos = 0]
    /\ UNCHANGED <<codec, receiver, input, inPos, sink, s2r, r2s, seals, closed, sent,
                   sOps, rOps, writes, shorts, tampers>>

\* start_sender, one turn of the 'write loop: sock.send(&buf[pos..bytes_read])
\* puts the bytes of the buffer on the socket as they are; after the last turn,
\* reader.consume(bytes_read).
Main_send ==
    /\ sender.result = "running" /\ sender.pc = "send"
    /\ \E k \in 1..(sender.bytes_read - sender.pos) :
          /\ s2r' = s2r \o ClearSeq(SubSeq(input, inPos + sender.pos + 1,
                                           inPos + sender.pos + k))
          /\ IF sender.pos + k >= sender.bytes_read
             THEN /\ inPos' = inPos + sender.bytes_read
                  /\ sender' = [sender EXCEPT !.pc = "fill_buf", !.pos = @ + k]
             ELSE /\ inPos' = inPos
                  /\ sender' = [sender EXCEPT !.pos = @ + k]
    /\ UNCHANGED <<codec, receiver, input, sink, r2s, seals, closed, sent, sOps, rOps,
                   writes, shorts, tampers>>

\* start_sender, after the loop: sock.close(), Ok(()).
Main_close ==
    /\ sender.result = "running" /\ sender.pc = "close"
    /\ closed' = Close(closed)
    /\ sender' = [sender EXCEPT !.pc = "done", !.result = "Ok"]
    /\ UNCHANGED <<codec, receiver, input, inPos, sink, s2r, r2s, seals, sent, sOps, rOps,
                   writes, shorts, tampers>>

\* start_receiver, one turn of its 'copy loop: conn.recv into a buffer of
\* BLOCK_SIZE bytes, stdout.write of what came (count unused), flush. With
\* nothing to read and the sender's socket closed, recv gives 0 (the loop
\* ends, Ok) or an error.
Main_recv ==
    /\ receiver.result = "running" /\ receiver.pc = "recv"
    /\ IF Len(s2r) > 0
       THEN \E n \in 1..Min(BLOCK_SIZE, Len(s2r)) :
               \E k \in SinkAccepts(n) :
                  /\ s2r' = Drop(s2r, n)
                  /\ sink' = sink \o [i \in 1..k |-> s2r[i][2]]
                  /\ writes' = Append(writes, [offered |-> n, accepted |-> k,
                                               flushed |-> TRUE])
                  /\ UNCHANGED receiver
       ELSE /\ sender.result # "running"
            /\ \E r \in {"Ok", "RxErr"} :
                  receiver' = [receiver EXCEPT !.pc = "done", !.result = r]
            /\ UNCHANGED <<s2r, sink, writes>>
    /\ UNCHANGED <<codec, sender, input, inPos, r2s, seals, closed, sent, sOps, rOps,
                   shorts, tampers>>

MainNext == Main_fill_buf \/ Main_send \/ Main_close \/ Main_recv

MainSpec == MainInit /\ [][MainNext]_vars

\* C17: no byte of the input is on the transport in the clear, and the
\* input is read only once the four messages of the handshake have been
\* written; this for the sender program as main() starts it.
C17_NoCleartext ==
    /\ \A i \in 1..Len(s2r) : s2r[i][1] # "i"
    /\ inPos > 0 => Len(sent) >= 4 /\ IsPrefix(SubSeq(Tags, 1, 4), Grammar(0))

\* ---------------------------------------------------- a client of any kind
\* The receiver against a client that follows Sender::run only up to some
\* point: it then keeps the connection open and sends nothing more, or sends
\* headers of its own making. A byte of such a client's payload is the triple
\* <<"j", 0, i>>: no seal operation has produced it.

ClientLens == {0, 1, LenCap}
JunkSeq(n) == [i \in 1..n |-> <<"j", 0, i>>]

\* The client stops following the protocol; its end of the connection stays open.
Client_stall ==
    /\ sender.result = "running" /\ sender.pc # "stalled"
    /\ sender' = [sender EXCEPT !.pc = "stalled"]
    /\ UNCHANGED <<codec, receiver, input, inPos, sink, s2r, r2s, seals, closed, sent,
                   sOps, rOps, writes, shorts, tampers>>

\* The client writes a header of any type and a len of its choice, and as many
\* payload bytes as the header says (none for a len no buffer can hold).
Client_write ==
    /\ sender.pc = "stalled"
    /\ receiver.result = "running"
    /\ s2r = <<>>
    /\ \E ty \in Types, len \in ClientLens :
          s2r' = Serialize(ty, len) \o (IF len < LenCap THEN JunkSeq(len) ELSE <<>>)
    /\ UNCHANGED <<codec, sender, receiver, input, inPos, sink, r2s, seals, closed, sent,
                   sOps, rOps, writes, shorts, tampers>>

ReceiverNext ==
    \/ R_recv_req_iv
    \/ R_send_rep_iv
    \/ R_recv_client_hello
    \/ R_send_server_hello
    \/ R_wait_chunk
    \/ R_wait_goodbye

ClientNext == PeerNext \/ Client_stall \/ Client_write

ClientSpec == Init /\ [][ClientNext]_vars

\* The places where the receiver reads a header, and the types it takes there.
ReadPcs == {"recv_req_iv", "recv_client_hello", "wait_chunk"}
LegalTys(pc) ==
    CASE pc = "recv_req_iv" -> {"ReqIV"}
      [] pc = "recv_client_hello" -> {"Hello"}
      [] pc = "wait_chunk" -> {"Block", "Goodbye"}
      [] OTHER -> Types

\* C18: when a client, its connection open, sends nothing more before the
\* handshake is complete, Receiver::run does not stay blocked: a receiver
\* that has no step left of its own (it waits for bytes that the silent
\* client does not send) has timed out and returned.
C18_TimesOut ==
    (sender.pc = "stalled" /\ receiver.state = "WaitHello" /\ ~ENABLED ReceiverNext)
        => ReceiverEnded

\* The receiver is about to read a header whose type is not legal where it is.
IllegalHead ==
    /\ receiver.result = "running"
    /\ receiver.pc \in ReadPcs
    /\ Len(s2r) >= MESSAGE_SIZE
    /\ \A h \in Deserialize(Take(s2r, MESSAGE_SIZE)) :
          h.ok /\ h.ty \notin LegalTys(receiver.pc)

\* C19: when the receiver reads a header whose type is not legal for its
\* state, Receiver::run returns the UnexpectedMessage error value, having
\* written nothing to the transport or to the sink in that step; and a
\* receiver whose run has returned does nothing more.
C19_UnexpectedMessage ==
    /\ [][(IllegalHead /\ receiver' # receiver) =>
             /\ receiver'.result = "UnexpectedMessage"
             /\ r2s' = r2s /\ sink' = sink /\ sent' = sent]_vars
    /\ [][ReceiverEnded =>
             /\ receiver' = receiver
             /\ sink' = sink
             /\ Len(r2s') <= Len(r2s)]_vars

\* The operations of an endpoint that has left WaitHello: the two of the
\* handshake, in the order given, with counters 1 and 2, then one per Block,
\* the j-th with counter 2 + j; the endpoint's counter is that of the last.
CountsFromTwo(rec, ops, first, second) ==
    rec.state \in {"Transmit", "WaitHangup"} =>
        /\ Len(ops) >= 2
        /\ ops[1].msg = "Hello" /\ ops[1].kind = first /\ ops[1].counter = 1
        /\ ops[2].msg = "Hello" /\ ops[2].kind = second /\ ops[2].counter = 2
        /\ \A j \in 1..(Len(ops) - 2) :
              ops[2 + j].msg = "Block" /\ ops[2 + j].counter = 2 + j
        /\ rec.counter = Len(ops)

\* The steps that send or receive a ReqIV, a RepIV or a Goodbye.
SenderPlainPcs == {"req_iv", "recv_rep_iv", "send_client_goodbye", "recv_server_goodbye"}
ReceiverPlainPcs == {"recv_req_iv", "send_rep_iv", "wait_goodbye"}

ServerLens == {0, 4, 5, LenCap}

\* The server stops following the protocol; its end of the connection stays open.
Server_stall ==
    /\ receiver.result = "running" /\ receiver.pc # "stalled"
    /\ receiver' = [receiver EXCEPT !.pc = "stalled"]
    /\ UNCHANGED <<codec, sender, input, inPos, sink, s2r, r2s, seals, closed, sent,
                   sOps, rOps, writes, shorts, tampers>>

\* The server writes a header of any type and a len of its choice, and as many
\* payload bytes as the header says (none for a len no buffer can hold).
Server_write ==
    /\ receiver.pc = "stalled"
    /\ sender.result = "running"
    /\ r2s = <<>>
    /\ \E ty \in Types, len \in ServerLens :
          r2s' = Serialize(ty, len) \o (IF len < LenCap THEN JunkSeq(len) ELSE <<>>)
    /\ UNCHANGED <<codec, sender, receiver, input, inPos, sink, s2r, seals, closed, sent,
                   sOps, rOps, writes, shorts, tampers>>

ServerNext == PeerNext \/ Server_stall \/ Server_write

ServerSpec == Init /\ [][ServerNext]_vars

\* The sender is about to read, at step 2, a header that is not a RepIV of len 4.
BadRepIV ==
    /\ sender.result = "running"
    /\ sender.pc = "recv_rep_iv"
    /\ Len(r2s) >= MESSAGE_SIZE
    /\ \A h \in Deserialize(Take(r2s, MESSAGE_SIZE)) :
          ~(h.ok /\ h.ty = "RepIV" /\ h.len = 4)

\* C21: at handshake step 2 the sender accepts only a header of type RepIV
\* with len 4: on any other header the step ends Sender::run with an error,
\* the iv stays as it was, and the sender writes no Hello (a sender whose run
\* has ended writes nothing more).
C21_RepIVOnly ==
    /\ [][(BadRepIV /\ sender' # sender) =>
             /\ sender'.result \notin {"running", "Ok"}
             /\ sender'.nonce = sender.nonce]_vars
    /\ [][SenderEnded => (sender' = sender /\ sOps' = sOps)]_vars

\* The len a header of each type may carry.
LegalLen(ty, len) ==
    CASE ty = "Block" -> len >= TAG_LEN /\ len <= BLOCK_SIZE + TAG_LEN
      [] ty = "Hello" -> len = Len(MAGIC_BYTES) + TAG_LEN
      [] ty \in {"ReqIV", "Goodbye"} -> len = 0
      [] OTHER -> TRUE

\* The next header on a wire is of a type in tys and its len is out of bounds.
BadLenHead(wire, tys) ==
    /\ Len(wire) >= MESSAGE_SIZE
    /\ \A h \in Deserialize(Take(wire, MESSAGE_SIZE)) :
          h.ok /\ h.ty \in tys /\ ~LegalLen(h.ty, h.len)

\* The types the sender takes where it reads a header after step 2.
SenderLegalTys(pc) ==
    CASE pc = "recv_hello" -> {"Hello"}
      [] pc = "recv_server_goodbye" -> {"Goodbye"}
      [] OTHER -> {}

\* C22: a peer that reads a header of a type it takes there, with a len
\* outside the bounds of that type, ends its run in that step with the
\* UnexpectedMessage or the Crypto error value; nothing is written to the sink
\* and the peer's state is not advanced.
C22_LenBounds ==
    /\ [][(/\ receiver.result = "running"
           /\ receiver.pc \in ReadPcs
           /\ BadLenHead(s2r, LegalTys(receiver.pc))
           /\ receiver' # receiver) =>
             /\ receiver'.result \in {"UnexpectedMessage", "CryptoErr"}
             /\ receiver'.state = receiver.state
             /\ sink' = sink]_vars
    /\ [][(/\ sender.result = "running"
           /\ BadLenHead(r2s, SenderLegalTys(sender.pc))
           /\ sender' # sender) =>
             /\ sender'.result \in {"UnexpectedMessage", "CryptoErr"}
             /\ sender'.state = sender.state
             /\ sink' = sink]_vars

\* C23: every header and every payload a peer sends is on the transport in
\* full, or the send has failed with an error: of each message written the
\* transport has taken all twelve header bytes, and all len payload bytes
\* unless the payload write failed.
C23_WriteAll ==
    \A i \in 1..Len(sent) :
        /\ sent[i].hdr = MESSAGE_SIZE
        /\ sent[i].pay \in {sent[i].len, -1}

\* ------------------------------------------------- a client that goes away
\* The receiver against a client whose stream ends in the middle of a Block:
\* after the header and all but the last of the payload bytes it announces,
\* the client's end of the connection is gone.

CutLens == {1, TAG_LEN + 1}

Client_cut ==
    /\ sender.pc = "stalled"
    /\ receiver.result = "running"
    /\ s2r = <<>>
    /\ \E len \in CutLens : s2r' = Serialize("Block", len) \o JunkSeq(len - 1)
    /\ sender' = Ended(sender, "Gone")
    /\ UNCHANGED <<codec, receiver, input, inPos, sink, r2s, seals, closed, sent,
                   sOps, rOps, writes, shorts, tampers>>

CutNext == ClientNext \/ Client_cut

CutSpec == Init /\ [][CutNext]_vars

\* The header the receiver is about to read in Transmit, when it is a Block
\* header that decodes in one way only and fits the block buffer.
BlockHeads ==
    IF receiver.result = "running" /\ receiver.pc = "wait_chunk"
           /\ Len(s2r) >= MESSAGE_SIZE
    THEN LET hs == Deserialize(Take(s2r, MESSAGE_SIZE)) IN
         IF Cardinality(hs) = 1
                /\ \A h \in hs : h.ok /\ h.ty = "Block" /\ h.len <= BLOCK_SIZE + TAG_LEN
         THEN hs ELSE {}
    ELSE {}

\* C24: in Transmit the receiver opens a Block only on exactly the len
\* bytes its header announced: a step that opens has taken the header and len
\* bytes off the transport, and when the stream ends before len bytes have
\* arrived the step ends the session with a read error and no open is made.
C24_OpenOnLenBytes ==
    [][\A h \in BlockHeads :
          (receiver' # receiver) =>
              /\ Len(rOps') = Len(rOps) + 1
              /\ IF Len(s2r) >= MESSAGE_SIZE + h.len
                 THEN rOps'[Len(rOps')].kind = "open"
                      => Len(s2r') = Len(s2r) - MESSAGE_SIZE - h.len
                 ELSE /\ rOps'[Len(rOps')].kind = "none"
                      /\ receiver'.result = "IoErr"]_vars

\* C25: after each successful open of a Block the receiver has written the
\* whole plaintext of the block to the sink before it reads the next header,
\* also when the sink takes fewer bytes than offered in one write: of every
\* write of a block that did not fail the sink has taken all the bytes offered.
C25_WholeBlockToSink ==
    \A i \in 1..Len(writes) : writes[i].accepted \in {writes[i].offered, -1}

\* The successful opens of Blocks, in the order the receiver made them.
OpenedBlocks == SelectSeq(rOps, LAMBDA o : o.kind = "open" /\ o.msg = "Block" /\ o.ok)

\* C26: at every state the bytes the receiver has written to the sink
\* are a prefix of the sender's input; the blocks opened are the blocks
\* sealed, in the order of their sealing, none twice and none skipped, and
\* each one authenticated unaltered.
C26_SinkPrefix ==
    /\ IsPrefix(sink, input)
    /\ \A i \in 1..Len(OpenedBlocks) :
          /\ OpenedBlocks[i].sid = sOps[2 + i].sid
          /\ ~OpenedBlocks[i].alt
    /\ Len(writes) = Len(OpenedBlocks)

\* An endpoint past WaitHello has opened the other's Hello: the operation at
\* place k of its log is a successful open of a Hello sealed under its own
\* key, made with a nonce that starts with its iv.
OpenedHello(rec, ops, k) ==
    rec.state \in {"Transmit", "WaitHangup"} =>
        /\ Len(ops) >= k
        /\ ops[k].kind = "open" /\ ops[k].msg = "Hello" /\ ops[k].ok
        /\ ops[k].sid \in 1..Len(seals)
        /\ seals[ops[k].sid].key = rec.key
        /\ seals[ops[k].sid].pt = MAGIC_BYTES
        /\ SubSeq(ops[k].nonce, 1, 4) = BE4(rec.nonce)

StateOrder == {<<"WaitHello", "Transmit">>, <<"Transmit", "WaitHangup">>}

\* C27: a peer is in Transmit or beyond only after it has opened the other
\* peer's Hello under its own key and the session iv; until then the receiver
\* has written nothing to the sink and the sender has read no input and sent
\* no Block; and a peer's state only moves WaitHello, Transmit, WaitHangup.
C27_HelloBeforeTransmit ==
    /\ [](OpenedHello(sender, sOps, 2) /\ OpenedHello(receiver, rOps, 1))
    /\ [](sender.state = "WaitHello" => (inPos = 0 /\ Blocks = <<>>))
    /\ [](receiver.state = "WaitHello" => (sink = <<>> /\ writes = <<>>))
    /\ [][sender'.state = sender.state
             \/ <<sender.state, sender'.state>> \in StateOrder]_vars
    /\ [][receiver'.state = receiver.state
             \/ <<receiver.state, receiver'.state>> \in StateOrder]_vars

C27_Witness ==
    /\ sender.state = "WaitHangup" /\ receiver.state = "WaitHangup"
    /\ sOps[2].ok /\ rOps[1].ok
    /\ inPos = Len(input) /\ Len(Blocks) = 2
    /\ sink # <<>>

\* The writes of one peer among the messages written.
SentBy(who) == SelectSeq(sent, LAMBDA m : m.from = who)

\* The results with which a run returns after a failed operation.
ErrorValues == {"IoErr", "SerializeErr", "CryptoErr", "UnexpectedMessage"}

\* A failed open is the last operation of its endpoint, whose run has
\* returned the Crypto error.
FailedOpenIsLast(rec, ops) ==
    \A i \in 1..Len(ops) :
        (ops[i].kind = "open" /\ ~ops[i].ok) =>
            (i = Len(ops) /\ rec.result = "CryptoErr")

\* C28: every error is fatal, nothing is retried or rolled back: a failed
\* open and a failed sink write end their peer's run with the error (they are
\* the last open, the last write); a peer whose run has returned
\* reads and writes nothing more on the transport, makes no AEAD operation
\* and no sink write; and what is in the sink stays there.
C28_ErrorsAreFatal ==
    /\ [](FailedOpenIsLast(sender, sOps) /\ FailedOpenIsLast(receiver, rOps))
    /\ [](\A i \in 1..Len(writes) :
            (writes[i].accepted = -1 \/ ~writes[i].flushed) =>
                (i = Len(writes) /\ receiver.result = "IoErr"))
    /\ [](sender.result \in {"running", "Ok", "Panic"} \cup ErrorValues)
    /\ [](receiver.result \in {"running", "Ok", "Panic"} \cup ErrorValues)
    /\ [][SenderEnded =>
             /\ sender' = sender /\ sOps' = sOps /\ inPos' = inPos
             /\ SentBy("S")' = SentBy("S")
             /\ Len(s2r') <= Len(s2r) /\ Len(r2s') >= Len(r2s)]_vars
    /\ [][ReceiverEnded =>
             /\ receiver' = receiver /\ rOps' = rOps
             /\ sink' = sink /\ writes' = writes /\ closed' = closed
             /\ SentBy("R")' = SentBy("R")
             /\ Len(r2s') <= Len(r2s) /\ Len(s2r') >= Len(s2r)]_vars
    /\ [][IsPrefix(sink, sink')]_vars

C28_Witness ==
    /\ receiver.result = "CryptoErr" /\ receiver.state = "Transmit"
    /\ sender.result = "IoErr"
    /\ sink # <<>>
    /\ Len(rOps) = 4 /\ ~rOps[4].ok

====
